---- MODULE Spec2Model ----
(***************************************************************************)
(* A model of the form of src/src/App.tsx: the zod schema                  *)
(* createUserFormSchema, the transform formatName, and the handlers        *)
(* addNewTech, createUser and handleSubmit(createUser).                    *)
(*                                                                         *)
(* Strings are sequences of one-character strings.  Messages are written   *)
(* in ASCII (the accents of the source's Portuguese messages are dropped). *)
(* The schema is evaluated as zod 3 evaluates it: a field's schema is the  *)
(* chain of stages the builder calls of the source create, run in order.   *)
(***************************************************************************)
EXTENDS Integers, Sequences, FiniteSets, TLC

\* ------------------------------------------------------------------ bounds
MaxTechs == 2
MaxUploads == 2
MaxNameLen == 3
MaxKnowledgeLen == 3
MaxPasswordLen == 7
MaxFiles == 2

\* ----------------------------------------------------------------- strings
LowerLetters ==
  <<"a","b","c","d","e","f","g","h","i","j","k","l","m",
    "n","o","p","q","r","s","t","u","v","w","x","y","z">>
UpperLetters ==
  <<"A","B","C","D","E","F","G","H","I","J","K","L","M",
    "N","O","P","Q","R","S","T","U","V","W","X","Y","Z">>
Digits == <<"0","1","2","3","4","5","6","7","8","9">>

IndexIn(c, s) == IF \E i \in 1..Len(s) : s[i] = c
                 THEN CHOOSE i \in 1..Len(s) : s[i] = c
                 ELSE 0

\* String.prototype.toLocaleUpperCase on one character
toLocaleUpperCase(c) ==
  IF IndexIn(c, LowerLetters) > 0 THEN UpperLetters[IndexIn(c, LowerLetters)] ELSE c

\* String.prototype.toLowerCase on one character
toLowerChar(c) ==
  IF IndexIn(c, UpperLetters) > 0 THEN LowerLetters[IndexIn(c, UpperLetters)] ELSE c

\* zod's .toLowerCase(): the whole string lower-cased
toLowerCase(s) == [i \in 1..Len(s) |-> toLowerChar(s[i])]

IsSpace(c) == c = " "

RECURSIVE trimStart(_)
trimStart(s) == IF s # <<>> /\ IsSpace(Head(s)) THEN trimStart(Tail(s)) ELSE s

RECURSIVE trimEnd(_)
trimEnd(s) ==
  IF s # <<>> /\ IsSpace(s[Len(s)]) THEN trimEnd(SubSeq(s, 1, Len(s) - 1)) ELSE s

\* String.prototype.trim
trim(s) == trimEnd(trimStart(s))

\* String.prototype.split(sep) for a one-character separator: the pieces between
\* separators; the empty string gives one empty piece
RECURSIVE splitFrom(_, _, _)
splitFrom(s, sep, word) ==
  IF s = <<>> THEN <<word>>
  ELSE IF Head(s) = sep THEN <<word>> \o splitFrom(Tail(s), sep, <<>>)
  ELSE splitFrom(Tail(s), sep, Append(word, Head(s)))

split(s, sep) == splitFrom(s, sep, <<>>)

\* Array.prototype.join(" ")
RECURSIVE join(_)
join(words) ==
  IF words = <<>> THEN <<>>
  ELSE IF Len(words) = 1 THEN words[1]
  ELSE words[1] \o <<" ">> \o join(Tail(words))

\* word[0] is undefined for an empty word: undefined.toLocaleUpperCase() throws
WordThrows(word) == word = <<>>

\* word[0].toLocaleUpperCase().concat(word.substring(1))
capitalize(word) == <<toLocaleUpperCase(word[1])>> \o SubSeq(word, 2, Len(word))

\* formatName(name): [threw, value]; threw when a piece of the split is empty
mapWords(words) ==
  IF \E i \in 1..Len(words) : WordThrows(words[i])
  THEN [threw |-> TRUE, value |-> <<>>]
  ELSE [threw |-> FALSE,
        value |-> join([i \in 1..Len(words) |-> capitalize(words[i])])]

formatName(name) == mapWords(split(trim(name), " "))

\* ----------------------------------------------------------------- numbers
IsDigit(c) == IndexIn(c, Digits) > 0
IsLetter(c) == IndexIn(c, LowerLetters) > 0 \/ IndexIn(c, UpperLetters) > 0
AllDigits(s) == s # <<>> /\ \A i \in 1..Len(s) : IsDigit(s[i])

RECURSIVE DecimalValue(_)
DecimalValue(s) ==
  IF s = <<>> THEN 0
  ELSE 10 * DecimalValue(SubSeq(s, 1, Len(s) - 1)) + (IndexIn(s[Len(s)], Digits) - 1)

NaN == [nan |-> TRUE, n |-> 0]
Num(n) == [nan |-> FALSE, n |-> n]

\* Number(string) of JavaScript, on strings of digits, spaces, "-" and letters
\* that form no radix prefix, exponent or Infinity: surrounding white space is
\* dropped, the empty string is 0, a decimal literal is its value, the rest NaN
NumericLiteral(t) ==
  IF t = <<>> THEN Num(0)
  ELSE IF AllDigits(t) THEN Num(DecimalValue(t))
  ELSE IF Head(t) = "-" /\ AllDigits(Tail(t)) THEN Num(0 - DecimalValue(Tail(t)))
  ELSE NaN

StringToNumber(s) == NumericLiteral(trim(s))

\* a raw knowledge value: the number appended by addNewTech, or the string
\* the registered input holds after an edit
NumberValue(n) == [type |-> "number", num |-> n, str |-> <<>>]
StringValue(s) == [type |-> "string", num |-> 0, str |-> s]

\* (mutant) a coercion that refuses blank strings instead of reading them as 0
coerceNumberBlankIsNaN(raw) ==
  IF raw.type = "number" THEN Num(raw.num)
  ELSE IF trim(raw.str) = <<>> THEN NaN
  ELSE StringToNumber(raw.str)

\* z.coerce.number(): Number(input)
coerceNumber(raw) == IF raw.type = "number" THEN Num(raw.num) ELSE StringToNumber(raw.str)

\* ------------------------------------------------------------------- email
IsAlnum(c) == IsDigit(c) \/ IsLetter(c)
AllAlnum(s) == s # <<>> /\ \A i \in 1..Len(s) : IsAlnum(s[i])
AllLetters(s) == s # <<>> /\ \A i \in 1..Len(s) : IsLetter(s[i])

\* zod's email pattern, on strings of letters, digits, "@" and ".": one "@", a
\* local part of dot-separated alphanumeric pieces, and a domain of at least two
\* dot-separated alphanumeric labels whose last has two letters or more
EmailParts(local, labels) ==
  /\ \A i \in 1..Len(local) : AllAlnum(local[i])
  /\ Len(labels) >= 2
  /\ \A i \in 1..Len(labels) : AllAlnum(labels[i])
  /\ AllLetters(labels[Len(labels)])
  /\ Len(labels[Len(labels)]) >= 2

EmailAround(parts) ==
  /\ Len(parts) = 2
  /\ EmailParts(split(parts[1], "."), split(parts[2], "."))

IsEmail(s) == EmailAround(split(s, "@"))

\* ------------------------------------------------------------------- files
\* a File of the FileList of the avatar input; NullFile is what
\* list.item(0) returns for an empty list
File(size) == [isNull |-> FALSE, name |-> "avatar.png", size |-> size]
NullFile == [isNull |-> TRUE, name |-> "", size |-> 0]

\* 5 * 1024 * 1024, the size bound of the avatar refinement
MaxFileSize == 5 * 1024 * 1024

\* list.item(0)!
item0(list) == IF Len(list) = 0 THEN NullFile ELSE list[1]

\* ------------------------------------------------------------------ schema
\* One stage of a field's schema, in the order the chain of builder calls runs
\* them: a check (a predicate with its message), a transform, the coercion of
\* z.coerce.number(), or the rewrite of .toLowerCase().
Stage(kind, id, message) == [kind |-> kind, id |-> id, message |-> message]

avatarSchema ==
  << Stage("check", "instanceof", "Input not instance of FileList"),
     Stage("transform", "item0", ""),
     Stage("check", "maxSize", "O arquivo precisa ter no maximo 5Mb") >>

nameSchema ==
  << Stage("check", "nonempty", "O nome e obrigatorio"),
     Stage("transform", "formatName", "") >>

emailSchema ==
  << Stage("check", "nonempty", "O email e obrigatorio"),
     Stage("check", "email", "Formato de email invalido"),
     Stage("rewrite", "toLowerCase", "") >>

passwordSchema ==
  << Stage("check", "min6", "A senha precisa ter no minimo 6 caracteres") >>

titleSchema ==
  << Stage("check", "nonempty", "O titulo e obrigatorio") >>

knowledgeSchema ==
  << Stage("coerce", "number", "Expected number, received nan"),
     Stage("check", "min1", "Number must be greater than or equal to 1"),
     Stage("check", "max100", "Number must be less than or equal to 100") >>

techsMinMessage == "Precisa ter no minimo 2 tecnologias"

\* the minimum of z.array(...).min(2, ...)
techsMin == 2

\* A check's predicate on a value: "pass", "fail", or "throw" when evaluating
\* it raises (file.size of a null file).
Outcome(b) == IF b THEN "pass" ELSE "fail"

\* (mutant) the size bound made exclusive
maxSizeExclusive(file) == file.size < MaxFileSize

\* .refine(file => file.size <= 5 * 1024 * 1024, ...)
maxSize(file) == file.size <= MaxFileSize

\* .nonempty(message): at least one character
nonempty(str) == Len(str) >= 1

\* the bound of password's .min(6, ...)
passwordMin == 6

\* the bounds of knowledge's .min(1).max(100)
knowledgeMin == 1
knowledgeMax == 100

\* .min(n) and .max(n) of a number are inclusive
numberMin(n, bound) == n >= bound
numberMax(n, bound) == n <= bound

CheckOutcome(id, v) ==
  CASE id = "instanceof" -> "pass"
    [] id = "maxSize"    -> IF v.isNull THEN "throw" ELSE Outcome(maxSize(v))
    [] id = "nonempty"   -> Outcome(nonempty(v))
    [] id = "email"      -> Outcome(IsEmail(v))
    [] id = "min6"       -> Outcome(Len(v) >= passwordMin)
    [] id = "min1"       -> Outcome(numberMin(v, knowledgeMin))
    [] id = "max100"     -> Outcome(numberMax(v, knowledgeMax))

\* A transform applied to a value: [threw, value].
ApplyTransform(id, v) ==
  CASE id = "item0"      -> [threw |-> FALSE, value |-> item0(v)]
    [] id = "formatName" -> formatName(v)

Issue(path, message) == [path |-> path, message |-> message]

\* (mutant) a transform that runs whatever the checks before it found
TransformRunsAlways(status) == TRUE

\* ZodEffects of a transform: the inner schema's result is returned as it is
\* unless it is valid
TransformRuns(status) == status = "valid"

\* checks run on a value of the right type: not after a failed coercion
CheckRuns(status) == status # "aborted"

\* The evaluation of a field so far is acc = [status, value, issues, trace,
\* transformed]; status is "valid", "dirty" (an issue was added), "aborted" (the
\* value has no type to check) or "throw" (an exception left the evaluation).
\* The trace records each stage that ran, whether the value it read was a
\* transform's output, and how it ended.
Log(st, acc, outcome) ==
  Append(acc.trace,
         [kind |-> st.kind, id |-> st.id, onTransformed |-> acc.transformed,
          outcome |-> outcome])

\* a check whose predicate ended with outcome o
CheckStage(st, path, acc, o) ==
  IF o = "pass" THEN [acc EXCEPT !.trace = Log(st, acc, o)]
  ELSE IF o = "fail"
  THEN [acc EXCEPT !.status = "dirty",
                   !.issues = Append(@, Issue(path, st.message)),
                   !.trace = Log(st, acc, o)]
  ELSE [acc EXCEPT !.status = "throw", !.trace = Log(st, acc, o)]

\* a transform that returned r = [threw, value]
TransformStage(st, acc, r) ==
  IF r.threw
  THEN [acc EXCEPT !.status = "throw", !.trace = Log(st, acc, "throw")]
  ELSE [acc EXCEPT !.value = r.value, !.transformed = TRUE,
                   !.trace = Log(st, acc, "pass")]

\* z.coerce.number() whose Number(input) is n: NaN is an invalid type, and the
\* checks of the number are not run
CoerceStage(st, path, acc, n) ==
  IF n.nan
  THEN [acc EXCEPT !.status = "aborted",
                   !.issues = Append(@, Issue(path, st.message)),
                   !.trace = Log(st, acc, "fail")]
  ELSE [acc EXCEPT !.value = n.n, !.trace = Log(st, acc, "pass")]

\* .toLowerCase(): the value is rewritten among the string's checks
RewriteStage(st, acc) ==
  [acc EXCEPT !.value = toLowerCase(@), !.trace = Log(st, acc, "pass")]

\* one stage of a schema on the evaluation so far
RunStage(st, path, acc) ==
  CASE acc.status = "throw" -> acc
    [] acc.status # "throw" /\ st.kind = "check" ->
         IF CheckRuns(acc.status)
         THEN CheckStage(st, path, acc, CheckOutcome(st.id, acc.value)) ELSE acc
    [] acc.status # "throw" /\ st.kind = "transform" ->
         IF TransformRuns(acc.status)
         THEN TransformStage(st, acc, ApplyTransform(st.id, acc.value)) ELSE acc
    [] acc.status # "throw" /\ st.kind = "coerce" ->
         CoerceStage(st, path, acc, coerceNumber(acc.value))
    [] acc.status # "throw" /\ st.kind = "rewrite" ->
         IF CheckRuns(acc.status) THEN RewriteStage(st, acc) ELSE acc

RECURSIVE RunStages(_, _, _, _)
RunStages(schema, i, path, acc) ==
  IF i > Len(schema) THEN acc
  ELSE RunStages(schema, i + 1, path, RunStage(schema[i], path, acc))

FieldResult(r) ==
  [status |-> r.status, value |-> r.value, issues |-> r.issues, trace |-> r.trace]

\* schema._parse(input) of a field: [status, value, issues, trace]
ParseField(schema, path, input) ==
  FieldResult(RunStages(schema, 1, path,
                        [status |-> "valid", value |-> input, issues |-> <<>>,
                         trace |-> <<>>, transformed |-> FALSE]))

\* --------------------------------------------------------- object and array
AnyThrow(results) == \E i \in 1..Len(results) : results[i].status = "throw"
AllValid(results) == \A i \in 1..Len(results) : results[i].status = "valid"

RECURSIVE ConcatIssues(_)
ConcatIssues(results) ==
  IF results = <<>> THEN <<>> ELSE Head(results).issues \o ConcatIssues(Tail(results))

RECURSIVE ConcatTraces(_)
ConcatTraces(results) ==
  IF results = <<>> THEN <<>> ELSE Head(results).trace \o ConcatTraces(Tail(results))

\* the status of an object or array from its children's: an exception of a child
\* leaves the whole evaluation; otherwise every child has been evaluated
Combine(results, ownIssues) ==
  IF AnyThrow(results) THEN "throw"
  ELSE IF AllValid(results) /\ ownIssues = <<>> THEN "valid"
  ELSE "dirty"

\* JavaScript array index i - 1 as a path segment
IndexSegment(i) == ToString(i - 1)

\* the object of an element from its fields' results
TechResult(t, k) ==
  [status |-> Combine(<<t, k>>, <<>>),
   value  |-> [title |-> t.value, knowledge |-> k.value],
   issues |-> t.issues \o k.issues,
   trace  |-> t.trace \o k.trace]

\* z.object({ title, knowledge }) on element i of techs
ParseTech(tech, i) ==
  TechResult(
    ParseField(titleSchema, <<"techs", IndexSegment(i), "title">>, tech.title),
    ParseField(knowledgeSchema, <<"techs", IndexSegment(i), "knowledge">>,
               tech.knowledge))

\* (mutant) the minimum compared one too low: an array of one element passes
MinItemsOffByOne(techs) ==
  IF Len(techs) < techsMin - 1 THEN <<Issue(<<"techs">>, techsMinMessage)>> ELSE <<>>

\* .min(2, message) of the array
MinItems(techs) ==
  IF Len(techs) < techsMin THEN <<Issue(<<"techs">>, techsMinMessage)>> ELSE <<>>

\* the array from its own issues and its elements' results
ArrayResult(own, els) ==
  [status |-> Combine(els, own),
   value  |-> [i \in 1..Len(els) |-> els[i].value],
   issues |-> own \o ConcatIssues(els),
   trace  |-> ConcatTraces(els)]

\* z.array(...).min(2, ...): the length is checked first, then every element
ParseTechs(techs) ==
  ArrayResult(MinItems(techs), [i \in 1..Len(techs) |-> ParseTech(techs[i], i)])

NoData ==
  [avatar |-> NullFile, name |-> <<>>, email |-> <<>>, password |-> <<>>, techs |-> <<>>]

\* the object from its fields' results: "Success" with the transformed data,
\* "Failure" with the issues of every field, or "Throw" when an exception left
\* the schema
ObjectResult(a, n, e, p, t, st) ==
  IF st = "throw" THEN [status |-> "Throw", value |-> NoData, errors |-> <<>>]
  ELSE IF st = "valid"
  THEN [status |-> "Success",
        value  |-> [avatar |-> a.value, name |-> n.value, email |-> e.value,
                    password |-> p.value, techs |-> t.value],
        errors |-> <<>>]
  ELSE [status |-> "Failure", value |-> NoData,
        errors |-> ConcatIssues(<<a, n, e, p, t>>)]

ObjectOf(a, n, e, p, t) == ObjectResult(a, n, e, p, t, Combine(<<a, n, e, p, t>>, <<>>))

\* createUserFormSchema applied to the form's values, as the resolver does
Validate(values) ==
  ObjectOf(ParseField(avatarSchema, <<"avatar">>, values.avatar),
           ParseField(nameSchema, <<"name">>, values.name),
           ParseField(emailSchema, <<"email">>, values.email),
           ParseField(passwordSchema, <<"password">>, values.password),
           ParseTechs(values.techs))

\* JSON.stringify(data, null, 2) as its key/value lines: a File has no
\* enumerable own property and is written {}
JSONstringify(data) ==
  << <<"avatar", "{}">>,
     <<"name", data.name>>,
     <<"email", data.email>>,
     <<"password", data.password>>,
     <<"techs", [i \in 1..Len(data.techs) |->
                  <<data.techs[i].title, data.techs[i].knowledge>>]>> >>

\* ------------------------------------------------------------------- state
VARIABLES
  formValues,    \* the values of the registered inputs (useForm, useFieldArray)
  output,        \* useState(""): the text shown in <pre>
  uploads,       \* the createUser calls awaiting supabase's upload, oldest first
  submitResult,  \* the resolver's outcome when the last event was a submit
  appends,       \* how many times addNewTech has run
  node,          \* SpecNode: the schema node under evaluation
  raw,           \* SpecNode: the node's input
  parsed         \* SpecNode: the node's result, once evaluated

formVars == <<formValues, output, uploads, submitResult, appends>>
nodeVars == <<node, raw, parsed>>
vars == <<formValues, output, uploads, submitResult, appends, node, raw, parsed>>

\* ------------------------------------------------------------------ inputs
RECURSIVE SeqsUpTo(_, _)
SeqsUpTo(S, n) ==
  IF n = 0 THEN {<<>>}
  ELSE LET shorter == SeqsUpTo(S, n - 1)
       IN shorter \cup {Append(q, x) : q \in {t \in shorter : Len(t) = n - 1}, x \in S}

\* what the form's events can put in the inputs
FormFileLists == {<<>>, <<File(MaxFileSize)>>, <<File(MaxFileSize + 1)>>}
FormNames == {<<>>, <<" ">>, <<"a", "d", "a">>}
FormEmails == {<<>>, <<"b", "a", "d">>, <<"A", "@", "b", ".", "c", "o">>}
FormPasswords == {<<>>, <<"1", "2", "3", "4", "5">>, <<"1", "2", "3", "4", "5", "6">>}
FormTitles == {<<" ">>, <<>>}
FormKnowledge == {StringValue(<<"5", "0">>)}

\* (mutant) an appended entry whose knowledge is already within the bounds
DefaultTechInBounds == [title |-> <<" ">>, knowledge |-> NumberValue(1)]

\* the object addNewTech appends: { title: " ", knowledge: 0 }
DefaultTech == [title |-> <<" ">>, knowledge |-> NumberValue(0)]

NoSubmit == [status |-> "none", value |-> NoData, errors |-> <<>>]
NotParsed == [status |-> "none", value |-> <<>>, issues |-> <<>>, trace |-> <<>>]

\* ------------------------------------------------------------ form machine
Init ==
  /\ formValues = [avatar |-> <<>>, name |-> <<>>, email |-> <<>>,
                   password |-> <<>>, techs |-> <<>>]
  /\ output = <<>>
  /\ uploads = <<>>
  /\ submitResult = NoSubmit
  /\ appends = 0
  /\ node = "idle"
  /\ raw = <<>>
  /\ parsed = NotParsed

\* an edit of a registered input: only the form's values change
Edit(values) ==
  /\ values # formValues
  /\ formValues' = values
  /\ submitResult' = NoSubmit
  /\ UNCHANGED <<output, uploads, appends, nodeVars>>

SelectAvatar == \E l \in FormFileLists : Edit([formValues EXCEPT !.avatar = l])
EditName == \E n \in FormNames : Edit([formValues EXCEPT !.name = n])
EditEmail == \E e \in FormEmails : Edit([formValues EXCEPT !.email = e])
EditPassword == \E p \in FormPasswords : Edit([formValues EXCEPT !.password = p])
EditTitle ==
  \E i \in 1..Len(formValues.techs), t \in FormTitles :
    Edit([formValues EXCEPT !.techs[i].title = t])
EditKnowledge ==
  \E i \in 1..Len(formValues.techs), k \in FormKnowledge :
    Edit([formValues EXCEPT !.techs[i].knowledge = k])

\* addNewTech(): append({ title: " ", knowledge: 0 })
addNewTech ==
  /\ Len(formValues.techs) < MaxTechs
  /\ formValues' = [formValues EXCEPT !.techs = Append(@, DefaultTech)]
  /\ appends' = appends + 1
  /\ submitResult' = NoSubmit
  /\ UNCHANGED <<output, uploads, nodeVars>>

\* (mutant) a handleSubmit that calls createUser whatever the resolver reports
OnValidAlways(r) == TRUE

\* handleSubmit calls createUser only when the resolver reports no error
OnValid(r) == r.status = "Success"

\* createUser up to its await: the upload of data.avatar under data.avatar.name
createUserStart(data) == Append(uploads, [path |-> data.avatar.name, data |-> data])

\* createUser after its await: setOutput(JSON.stringify(data, null, 2))
createUserResume(data) == JSONstringify(data)

RemoveAt(q, i) == SubSeq(q, 1, i - 1) \o SubSeq(q, i + 1, Len(q))

\* onSubmit = handleSubmit(createUser)
handleSubmit(r) ==
  /\ submitResult' = r
  /\ IF OnValid(r)
     THEN /\ Len(uploads) < MaxUploads
          /\ uploads' = createUserStart(r.value)
     ELSE UNCHANGED uploads
  /\ UNCHANGED <<formValues, output, appends, nodeVars>>

Submit == handleSubmit(Validate(formValues))

\* the awaited upload settles with a result ({ data, error }): createUser resumes
UploadSettles ==
  \E i \in 1..Len(uploads) :
    /\ output' = createUserResume(uploads[i].data)
    /\ uploads' = RemoveAt(uploads, i)
    /\ submitResult' = NoSubmit
    /\ UNCHANGED <<formValues, appends, nodeVars>>

\* the awaited upload rejects: createUser ends at its await
UploadRejects ==
  \E i \in 1..Len(uploads) :
    /\ uploads' = RemoveAt(uploads, i)
    /\ submitResult' = NoSubmit
    /\ UNCHANGED <<formValues, output, appends, nodeVars>>

Next ==
  \/ SelectAvatar
  \/ EditName
  \/ EditEmail
  \/ EditPassword
  \/ EditTitle
  \/ EditKnowledge
  \/ addNewTech
  \/ Submit
  \/ UploadSettles
  \/ UploadRejects

Spec == Init /\ [][Next]_vars

\* ------------------------------------------------- one schema node at a time
\* The inputs of SpecNode: each node of the schema is evaluated on its own, on
\* every input of a bounded set.
FileSizes == {1024, MaxFileSize - 1, MaxFileSize, MaxFileSize + 1, 6 * 1024 * 1024}
NodeFileLists == SeqsUpTo({File(sz) : sz \in FileSizes}, MaxFiles)

NameChars == {"a", "b", " "}
AdaLovelace == <<"a", "d", "a", " ", "l", "o", "v", "e", "l", "a", "c", "e">>
NodeNames ==
  SeqsUpTo(NameChars, MaxNameLen) \cup {AdaLovelace, <<"a", " ", " ", "b">>}

KnowledgeChars == {"0", "1", " ", "a"}
NodeKnowledge ==
  {StringValue(str) :
     str \in SeqsUpTo(KnowledgeChars, MaxKnowledgeLen)
             \cup {<<"4", "2">>, <<"1", "5", "0">>, <<"a", "b", "c">>}}
  \cup {NumberValue(n) : n \in {0, 1, 100, 101}}

TechExamples ==
  {[title |-> t, knowledge |-> k] :
     t \in {<<>>, <<" ">>, <<"G", "o">>},
     k \in {NumberValue(0), StringValue(<<>>), StringValue(<<"5", "0">>),
            StringValue(<<"1", "5", "0">>)}}
NodeTechs == SeqsUpTo(TechExamples, MaxTechs)

NodeEmails ==
  {<<>>, <<"b", "a", "d">>, <<"a", "@", "b">>, <<"@", "b", ".", "c", "o">>,
   <<"a", "@", "b", ".", "c", "o">>, <<"A", "@", "b", ".", "c", "o">>,
   <<"A", "d", "a", "@", "X", ".", "I", "O">>, <<"a", "@", "b", ".", "c">>}

PasswordChars == <<"1", "2", "3", "4", "5", "6", "7", "8", "9">>
NodePasswords == {SubSeq(PasswordChars, 1, n) : n \in 0..MaxPasswordLen}

FormIdle ==
  /\ formValues = [avatar |-> <<>>, name |-> <<>>, email |-> <<>>,
                   password |-> <<>>, techs |-> <<>>]
  /\ output = <<>>
  /\ uploads = <<>>
  /\ submitResult = NoSubmit
  /\ appends = 0

InitNode ==
  /\ FormIdle
  /\ parsed = NotParsed
  /\ \/ node = "avatar" /\ raw \in NodeFileLists
     \/ node = "name" /\ raw \in NodeNames
     \/ node = "email" /\ raw \in NodeEmails
     \/ node = "password" /\ raw \in NodePasswords
     \/ node = "knowledge" /\ raw \in NodeKnowledge
     \/ node = "techs" /\ raw \in NodeTechs

\* the node's schema applied to its input
ParseNode(n, result) ==
  /\ node = n
  /\ parsed.status = "none"
  /\ parsed' = result
  /\ UNCHANGED <<node, raw, formVars>>

ParseAvatar == ParseNode("avatar", ParseField(avatarSchema, <<"avatar">>, raw))
ParseName == ParseNode("name", ParseField(nameSchema, <<"name">>, raw))
ParseEmail == ParseNode("email", ParseField(emailSchema, <<"email">>, raw))
ParsePassword == ParseNode("password", ParseField(passwordSchema, <<"password">>, raw))
ParseKnowledge ==
  ParseNode("knowledge", ParseField(knowledgeSchema, <<"knowledge">>, raw))
ParseTechsNode == ParseNode("techs", ParseTechs(raw))

NextNode ==
  \/ ParseAvatar
  \/ ParseName
  \/ ParseEmail
  \/ ParsePassword
  \/ ParseKnowledge
  \/ ParseTechsNode

SpecNode == InitNode /\ [][NextNode]_vars

\* ------------------------------------------------------------------ claims
HasIssue(issues, path, message) ==
  \E i \in 1..Len(issues) : issues[i].path = path /\ issues[i].message = message

IssuesAt(issues, path) == {i \in 1..Len(issues) : issues[i].path = path}

Go150 == [title |-> <<"G", "o">>, knowledge |-> StringValue(<<"1", "5", "0">>)]

\* C4: every techs array of fewer than 2 elements is rejected with the message
\* "Precisa ter no minimo 2 tecnologias" at the path techs, whatever its
\* elements are; for the single element {title: "Go", knowledge: "150"} the
\* same result also holds the out-of-bounds error at techs[0].knowledge.
C4_MinItemsAtTechs ==
  (node = "techs" /\ parsed.status # "none" /\ Len(raw) < 2) =>
    /\ parsed.status = "dirty"
    /\ HasIssue(parsed.issues, <<"techs">>, "Precisa ter no minimo 2 tecnologias")
    /\ raw = <<Go150>> =>
         HasIssue(parsed.issues, <<"techs", "0", "knowledge">>,
                  "Number must be less than or equal to 100")

C4_Witness ==
  /\ node = "techs"
  /\ raw = <<Go150>>
  /\ parsed.status = "dirty"
  /\ Len(parsed.issues) = 2

\* C6: for an avatar file list whose first file has size s, the avatar field
\* passes with that first file as its value when s <= 5*1024*1024, and is
\* rejected with "O arquivo precisa ter no maximo 5Mb" at path avatar when
\* s > 5*1024*1024.
C6_AvatarSizeBound ==
  (node = "avatar" /\ parsed.status # "none" /\ Len(raw) >= 1) =>
    IF raw[1].size <= 5 * 1024 * 1024
    THEN /\ parsed.status = "valid"
         /\ parsed.value = raw[1]
         /\ parsed.issues = <<>>
    ELSE /\ parsed.status = "dirty"
         /\ parsed.issues =
              <<Issue(<<"avatar">>, "O arquivo precisa ter no maximo 5Mb")>>

C6_Witness ==
  /\ node = "avatar"
  /\ Len(raw) >= 1
  /\ raw[1].size = 5 * 1024 * 1024
  /\ parsed.status = "valid"
  /\ parsed.value = raw[1]

IsBlank(str) == \A i \in 1..Len(str) : str[i] = " "
HasLetter(str) == \E i \in 1..Len(str) : IsLetter(str[i])
CoercionIssue == Issue(<<"knowledge">>, "Expected number, received nan")
TooSmallIssue == Issue(<<"knowledge">>, "Number must be greater than or equal to 1")
TooBigIssue == Issue(<<"knowledge">>, "Number must be less than or equal to 100")

\* what C5 says of strings of digits: coerced to their number, accepted exactly
\* in 1..100 inclusive
DigitsAccepted ==
  (raw.type = "string" /\ AllDigits(raw.str)) =>
    /\ parsed.status = "valid" <=>
         (DecimalValue(raw.str) >= 1 /\ DecimalValue(raw.str) <= 100)
    /\ parsed.status = "valid" => parsed.value = DecimalValue(raw.str)
    /\ DecimalValue(raw.str) < 1 => parsed.issues = <<TooSmallIssue>>
    /\ DecimalValue(raw.str) > 100 => parsed.issues = <<TooBigIssue>>
    /\ raw.str = <<"4", "2">> => (parsed.status = "valid" /\ parsed.value = 42)
    /\ raw.str \in {<<"1">>, <<"1", "0", "0">>} => parsed.status = "valid"
    /\ raw.str \in {<<"0">>, <<"1", "0", "1">>} => parsed.status = "dirty"

\* C5 as stated: a numeric string is coerced and accepted exactly in 1..100;
\* an empty, a whitespace-only and a non-numeric string are each rejected as a
\* coercion failure, with only the coercion error at that path.
C5_Original ==
  (node = "knowledge" /\ parsed.status # "none") =>
    /\ DigitsAccepted
    /\ (raw.type = "string" /\ (IsBlank(raw.str) \/ HasLetter(raw.str))) =>
         parsed.issues = <<CoercionIssue>>

\* C5 (amended): a numeric string is coerced and accepted exactly in 1..100; a
\* string with a letter is rejected as a coercion failure, with only the
\* coercion error; an empty or whitespace-only string is coerced to 0 and
\* rejected by the lower bound, with only the bound error at that path.
C5_BlankIsZero ==
  (node = "knowledge" /\ parsed.status # "none") =>
    /\ DigitsAccepted
    /\ (raw.type = "string" /\ HasLetter(raw.str)) =>
         (parsed.status = "aborted" /\ parsed.issues = <<CoercionIssue>>)
    /\ (raw.type = "string" /\ IsBlank(raw.str)) =>
         (parsed.status = "dirty" /\ parsed.issues = <<TooSmallIssue>>)

C5_Witness ==
  /\ node = "knowledge"
  /\ raw = StringValue(<<" ">>)
  /\ parsed.issues = <<TooSmallIssue>>

Checks(trace) == {i \in 1..Len(trace) : trace[i].kind = "check"}
Transforms(trace) == {i \in 1..Len(trace) : trace[i].kind = "transform"}

Fields == {"avatar", "name", "email", "password", "techs"}

Submitted == submitResult.status # "none"

ErrorsOf(f) ==
  {i \in 1..Len(submitResult.errors) : submitResult.errors[i].path[1] = f}

\* C1: validating any raw form input never throws: the outcome is always a
\* Success or a Failure carrying the field errors.
C1_NeverThrows == submitResult.status \in {"none", "Success", "Failure"}

\* C2: name " ", email "bad" and password "12345" give a Failure with exactly
\* three errors among these fields: one at name, one at email, one at password.
C2_ScenarioA ==
  (/\ Submitted
   /\ formValues.name = <<" ">>
   /\ formValues.email = <<"b", "a", "d">>
   /\ formValues.password = <<"1", "2", "3", "4", "5">>) =>
    /\ submitResult.status = "Failure"
    /\ \A f \in {"name", "email", "password"} : Cardinality(ErrorsOf(f)) = 1

\* the result of a field's own schema on the form's current value
FieldParse(f) ==
  CASE f = "avatar"   -> ParseField(avatarSchema, <<"avatar">>, formValues.avatar)
    [] f = "name"     -> ParseField(nameSchema, <<"name">>, formValues.name)
    [] f = "email"    -> ParseField(emailSchema, <<"email">>, formValues.email)
    [] f = "password" -> ParseField(passwordSchema, <<"password">>, formValues.password)
    [] f = "techs"    -> ParseTechs(formValues.techs)

FailsChecks(f) == FieldParse(f).issues # <<>>

\* C3: whenever some fields fail their checks, the result is a Failure holding
\* an error at every failing field at once, and none at a field that passes.
C3_Aggregation ==
  (Submitted /\ \E f \in Fields : FailsChecks(f)) =>
    /\ submitResult.status = "Failure"
    /\ \A f \in Fields : FailsChecks(f) <=> ErrorsOf(f) # {}

KnowledgeInBounds(k) ==
  /\ ~coerceNumber(k).nan
  /\ coerceNumber(k).n >= 1
  /\ coerceNumber(k).n <= 100

SatisfiesAllChecks(values) ==
  /\ Len(values.avatar) >= 1
  /\ values.avatar[1].size <= 5 * 1024 * 1024
  /\ Len(values.name) >= 1
  /\ IsEmail(values.email)
  /\ Len(values.password) >= 6
  /\ Len(values.techs) >= 2
  /\ \A i \in 1..Len(values.techs) :
       /\ Len(values.techs[i].title) >= 1
       /\ KnowledgeInBounds(values.techs[i].knowledge)

\* C7: an input that satisfies every check validates to Success, whose value
\* is the input with name capitalised word by word, email lower-cased, avatar
\* the first file, and password and titles unchanged; validating the
\* transformed name and email again gives the same value.
C7_SuccessValue ==
  (Submitted /\ SatisfiesAllChecks(formValues)) =>
    /\ submitResult.status = "Success"
    /\ submitResult.value.avatar = formValues.avatar[1]
    /\ submitResult.value.name = formatName(formValues.name).value
    /\ submitResult.value.email = toLowerCase(formValues.email)
    /\ submitResult.value.password = formValues.password
    /\ \A i \in 1..Len(formValues.techs) :
         submitResult.value.techs[i].title = formValues.techs[i].title
    /\ Validate([formValues EXCEPT !.name = submitResult.value.name,
                                   !.email = submitResult.value.email]).value
         = submitResult.value

\* C9: an upload starts only in a submit whose validation returned Success,
\* with that submit's validated data; the output changes only when an upload
\* in flight has completed, to the JSON text of that upload's data; a submit
\* whose validation did not succeed starts no upload and leaves the output.
C9_UploadThenOutput ==
  [][/\ Len(uploads') > Len(uploads) =>
          /\ submitResult' = Validate(formValues)
          /\ submitResult'.status = "Success"
          /\ uploads' = Append(uploads, [path |-> submitResult'.value.avatar.name,
                                         data |-> submitResult'.value])
          /\ output' = output
     /\ output' # output =>
          \E i \in 1..Len(uploads) :
            /\ uploads' = RemoveAt(uploads, i)
            /\ output' = JSONstringify(uploads[i].data)
     /\ submitResult'.status \in {"Failure", "Throw"} =>
          /\ submitResult' = Validate(formValues)
          /\ uploads' = uploads
          /\ output' = output]_vars

C9_Witness ==
  /\ output # <<>>
  /\ submitResult.status = "Failure"
  /\ uploads = <<>>

\* C10: the output is non-empty only if addNewTech ran at least twice before
\* the successful submit and no entry's knowledge was the appended default; an
\* entry left as appended (title " ", knowledge 0) makes validation fail at
\* its knowledge path, and its title gives no error.
C10_OutputNeedsTwoEditedTechs ==
  /\ DefaultTech = [title |-> <<" ">>, knowledge |-> NumberValue(0)]
  /\ output # <<>> =>
       /\ appends >= 2
       /\ Len(output[5][2]) >= 2
       /\ \A i \in 1..Len(output[5][2]) : output[5][2][i][2] # 0
  /\ uploads # <<>> => appends >= 2
  /\ submitResult.status = "Success" =>
       /\ appends >= 2
       /\ Len(formValues.techs) >= 2
       /\ \A i \in 1..Len(formValues.techs) :
            formValues.techs[i].knowledge # DefaultTech.knowledge
  /\ \A i \in 1..Len(formValues.techs) :
       formValues.techs[i] = DefaultTech =>
         /\ IssuesAt(ParseTechs(formValues.techs).issues,
                     <<"techs", IndexSegment(i), "knowledge">>) # {}
         /\ IssuesAt(ParseTechs(formValues.techs).issues,
                     <<"techs", IndexSegment(i), "title">>) = {}
         /\ Submitted => submitResult.status # "Success"

C10_Witness ==
  /\ output # <<>>
  /\ appends >= 2
  /\ submitResult.status = "Success"
  /\ uploads # <<>>

====
